---- MODULE Spec2Model ----
(***************************************************************************)
(* Model of the mcp-telnet connection engine (src/src/connection/telnet.ts *)
(* and src/src/connection/state.ts).                                       *)
(*                                                                         *)
(* The engine runs on one JavaScript event loop: every callback runs to    *)
(* completion, so each action below is one callback or one controller call *)
(* up to the point where it returns to the event loop.                     *)
(*                                                                         *)
(* A target (host, port, logical name) is abstracted to one value of Hosts *)
(* ("" is the empty host of the initial state).  Bytes of application text *)
(* are abstracted to small naturals.                                       *)
(***************************************************************************)
EXTENDS Integers, Sequences, FiniteSets, TLC

\* ---------------------------------------------------------------- bounds
\* sockets the engine may create in one behaviour of Spec
LifeSockets == 4
\* sockets the engine may create in one behaviour of SpecSeq
SeqSockets == 5
\* sockets the engine may create in one behaviour of SpecCorr
CorrSockets == 2
\* reconnect timers that may be pending at once
MaxTimers == 2
\* sockets that may be connecting, open or awaiting their 'close' event at once
MaxLive == 2
\* sendCommand calls in one behaviour
MaxSends == 2
\* length of one inbound text chunk in SpecBuf
MaxChunk == 5
\* the ceiling of the response buffer, scaled down from 256 * 1024
MAX_RESPONSE_BUFFER_SIZE == 3
\* sockets the engine may create in one behaviour of SpecDec
DecSockets == 2
\* sequences of the core tokens in one mixed inbound chunk
MaxTokens == 2
\* terminal-type SEND requests in one inbound chunk
MaxRequests == 2

\* sockets created in one behaviour of SpecRec
RecSockets == 6

\* sockets created in one behaviour of SpecMode
ModeSockets == 2

\* sockets created in one behaviour of SpecGate
GateSockets == 2

\* sockets created in one behaviour of SpecTls
TlsSockets == 3

\* sockets created in one behaviour of SpecSecure
SecureSockets == 3

\* characters of one command in SpecSan
MaxCommand == 3

\* setConnectionState calls in one behaviour of SpecState
MaxUpdates == 3

\* ------------------------------------------------------------- constants
MAX_RECONNECT_ATTEMPTS == 3

\* milliseconds
RECONNECT_INITIAL_DELAY == 5000

\* attemptReconnect: the base of the backoff and its cap, in milliseconds
baseDelay == 1000
maxDelay == 30000

\* constants.ts TELNET.CMD, TELNET.OPT, TELNET.SUB and TELNET.MTTS
IAC == 255
WILL == 251
WONT == 252
DO == 253
DONT == 254
SB == 250
SE == 240
TERMINAL_TYPE == 24
IS == 0
SEND == 1
MTTS_FLAG_ANSI == 1
MTTS_FLAG_UTF8 == 4
MTTS_FLAG_256COLOR == 8

Max(a, b) == IF a > b THEN a ELSE b

\* every socket of a behaviour has a place in the socket table
MaxSockets ==
  Max(Max(Max(SeqSockets, DecSockets), Max(LifeSockets, CorrSockets)),
      Max(Max(RecSockets, ModeSockets), Max(GateSockets, TlsSockets)))

\* the decoder's cap on one chunk (1024 * 1024), four times the ceiling of the
\* response buffer
MAX_BUFFER_SIZE == 4 * MAX_RESPONSE_BUFFER_SIZE

Hosts == {"A", "B"}
NoHost == ""
Byte == {0, 1}

VARIABLES
  connectionState,          \* state.ts connectionState
  telnetClient,             \* telnet.ts telnetClient: 0 is null, else a socket
  sockets,                  \* every socket the engine created, by creation order
  nextSock,                 \* number of sockets created so far
  keepAliveTimer,           \* TRUE iff the keep-alive interval is armed
  activeReconnectionTimers, \* pending reconnect timers, in scheduling order
  backoffs,                 \* attemptReconnect loops inside their backoff wait
  responseBuffer,           \* state.ts responseBuffer
  sends,                    \* sendCommand calls whose settle timer is pending
  sendSeq,                  \* number of sendCommand calls that wrote a command
  returned,                 \* the result a sendCommand call returns in this step
  lastAppend,               \* history: the last append of the buffer specification
  hist,                     \* history: what the controller last asked for
  terminalTypeState,        \* telnet.ts terminalTypeState
  decoded,                  \* the chunk the 'data' handler decodes in this step
  isUpdatingState,          \* state.ts isUpdatingState
  deferredUpdates,          \* state.ts: updates queued with setTimeout(..., 0)
  written,                  \* the command of the last sendCommand call and its
                            \* sanitized form
  savedConnections          \* the saved profile of each name: "none" when
                            \* there is none, else "active" or "inactive"

vars == <<connectionState, telnetClient, sockets, nextSock, keepAliveTimer,
          activeReconnectionTimers, backoffs, responseBuffer, sends, sendSeq,
          returned, lastAppend, hist, terminalTypeState, decoded,
          isUpdatingState, deferredUpdates, written, savedConnections>>

\* ------------------------------------------------------------ the engine
\* The engine's mutable state as one record, so that a handler that calls
\* another handler is the composition of two operators.
Eng ==
  [cs |-> connectionState, tc |-> telnetClient, socks |-> sockets,
   n |-> nextSock, ka |-> keepAliveTimer, timers |-> activeReconnectionTimers,
   backoffs |-> backoffs, buf |-> responseBuffer, tts |-> terminalTypeState,
   updating |-> isUpdatingState, deferred |-> deferredUpdates,
   saved |-> savedConnections]

Commit(e) ==
  /\ connectionState' = e.cs
  /\ telnetClient' = e.tc
  /\ sockets' = e.socks
  /\ nextSock' = e.n
  /\ keepAliveTimer' = e.ka
  /\ activeReconnectionTimers' = e.timers
  /\ backoffs' = e.backoffs
  /\ responseBuffer' = e.buf
  /\ terminalTypeState' = e.tts
  /\ isUpdatingState' = e.updating
  /\ deferredUpdates' = e.deferred
  /\ savedConnections' = e.saved

NoSocket ==
  [status |-> "unused", host |-> NoHost, by |-> "none", attempts |-> 0,
   waited |-> 0, resolved |-> FALSE, tls |-> FALSE]

\* state.ts: { ...connectionState, ...newState }
Merge(cs, newState) ==
  [k \in DOMAIN cs |-> IF k \in DOMAIN newState THEN newState[k] ELSE cs[k]]

\* a faulty setConnectionState() without the finally block that releases
\* isUpdatingState
setConnectionStateHoldingFlag(e, newState) ==
  IF e.updating THEN [e EXCEPT !.deferred = Append(@, newState)]
  ELSE [e EXCEPT !.updating = TRUE, !.cs = Merge(@, newState)]

\* setConnectionState(): a call that finds isUpdatingState set queues itself
\* with setTimeout(..., 0); otherwise it sets the flag, merges and releases
\* the flag before it returns
setConnectionState(e, newState) ==
  IF e.updating THEN [e EXCEPT !.deferred = Append(@, newState)]
  ELSE LET e1 == [e EXCEPT !.updating = TRUE]
           e2 == [e1 EXCEPT !.cs = Merge(@, newState)]
       IN [e2 EXCEPT !.updating = FALSE]

clearResponseBuffer(e) == [e EXCEPT !.buf = <<>>]

\* String.prototype.slice(k): the empty string when k >= length
Slice(s, k) == IF k >= Len(s) THEN <<>> ELSE SubSeq(s, k + 1, Len(s))

\* a faulty append that cuts the result at the ceiling from the front and so
\* drops the newest bytes
appendKeepingOldest(buf, text) ==
  LET all == buf \o text IN
  IF Len(all) > MAX_RESPONSE_BUFFER_SIZE
    THEN SubSeq(all, 1, MAX_RESPONSE_BUFFER_SIZE)
    ELSE all

appendToResponseBuffer(buf, text) ==
  LET newLength == Len(buf) + Len(text) IN
  IF newLength > MAX_RESPONSE_BUFFER_SIZE
    THEN Slice(buf, newLength - MAX_RESPONSE_BUFFER_SIZE) \o text
    ELSE buf \o text

stopKeepAlive(e) == [e EXCEPT !.ka = FALSE]

startKeepAlive(e) == [stopKeepAlive(e) EXCEPT !.ka = TRUE]

cleanupTimers(e) == [stopKeepAlive(e) EXCEPT !.timers = <<>>]

\* socket.destroy(): the socket is destroyed at once, its 'close' event is
\* emitted later
Destroy(socks, s) ==
  IF s # 0 /\ socks[s].status \in {"connecting", "open"}
    THEN [socks EXCEPT ![s].status = "destroyed"]
    ELSE socks

IsDestroyed(e, s) == e.socks[s].status \in {"destroyed", "closed"}

\* the guard of disconnect() and sendCommand(), and isTelnetClientConnected()
isTelnetClientConnected(e) ==
  e.tc # 0 /\ ~IsDestroyed(e, e.tc) /\ e.cs.isConnected

\* a faulty update of the saved connections that leaves the profile as it is
markInactiveNever(e, name) == e

\* the saved connection called name, if there is one, is marked inactive and
\* the list saved; a session's name is that of its host
markInactive(e, name) ==
  IF name # NoHost /\ e.saved[name] # "none"
    THEN [e EXCEPT !.saved[name] = "inactive"] ELSE e

disconnect(e) ==
  IF ~isTelnetClientConnected(e) THEN e
  ELSE LET name == e.cs.host
           e1 == cleanupTimers(e)
           e2 == [e1 EXCEPT !.socks = Destroy(e1.socks, e1.tc), !.tc = 0]
       IN markInactive(setConnectionState(e2, [isConnected |-> FALSE]), name)

\* a faulty connect() that keeps the response buffer of the session before
connectKeepingBuffer(e, host, by, attempts, waited) ==
  LET e1 == disconnect([e EXCEPT !.tts = 0])
      s == e1.n + 1
      e2 == [e1 EXCEPT !.socks[s] = [status |-> "connecting", host |-> host,
                                     by |-> by, attempts |-> attempts,
                                     waited |-> waited, resolved |-> FALSE,
                                     tls |-> FALSE],
                       !.n = s, !.tc = s]
  IN startKeepAlive(e2)

\* connect() from its entry to the return of the Promise executor: the
\* identity gate is taken as passed, the sequencer is reset, a live session
\* is disconnected, the buffer cleared and the socket created
connect(e, host, by, attempts, waited) ==
  LET e1 == clearResponseBuffer(disconnect([e EXCEPT !.tts = 0]))
      s == e1.n + 1
      e2 == [e1 EXCEPT !.socks[s] = [status |-> "connecting", host |-> host,
                                     by |-> by, attempts |-> attempts,
                                     waited |-> waited, resolved |-> FALSE,
                                     tls |-> FALSE],
                       !.n = s, !.tc = s]
  IN startKeepAlive(e2)

\* connect() called with tlsOptions.tls set: as connect(), with the socket
\* made by tls.connect and 'secureConnect' in the place of 'connect'
connectTls(e, host, by, attempts, waited) ==
  LET e1 == connect(e, host, by, attempts, waited)
  IN [e1 EXCEPT !.socks[e1.tc].tls = TRUE]

\* a faulty connect() that consults the identity gate only after it has
\* reset the sequencer and closed the existing session
connectCheckingLate(e, identified, host, by, attempts, waited) ==
  IF ~identified THEN disconnect([e EXCEPT !.tts = 0])
  ELSE connect(e, host, by, attempts, waited)

\* connect() with its identity gate: isLLMIdentified() is consulted first and
\* a call that finds it false returns a failure at once
connectChecked(e, identified, host, by, attempts, waited) ==
  IF ~identified THEN e
  ELSE connect(e, host, by, attempts, waited)

\* a faulty backoff that doubles once more, as the comment of the
\* computation reads ("2^attempts * base delay")
exponentialDelayAsCommented(attempts) ==
  IF baseDelay * 2 ^ attempts < maxDelay
    THEN baseDelay * 2 ^ attempts ELSE maxDelay

\* Math.min(baseDelay * Math.pow(2, attempts - 1), 30000)
exponentialDelay(attempts) ==
  IF baseDelay * 2 ^ (attempts - 1) < maxDelay
    THEN baseDelay * 2 ^ (attempts - 1) ELSE maxDelay

\* resolve() of the connect Promise of socket s; a second resolve is a no-op.
\* A failed connect awaited by attemptReconnect sends that loop to its
\* backoff wait; a successful one ends it.  A waiting loop is named by the
\* socket whose connect failed.  delay is the wait without its jitter (the
\* wait is delay + Math.random() * 1000), waited the sum of the delays of
\* the loop up to this one.
resolve(e, s, ok) ==
  IF e.socks[s].resolved THEN e
  ELSE LET e1 == [e EXCEPT !.socks[s].resolved = TRUE, !.socks[s].attempts = 0,
                           !.socks[s].waited = 0]
           delay == exponentialDelay(e.socks[s].attempts)
       IN
       IF e.socks[s].by = "rec" /\ ~ok
         THEN [e1 EXCEPT !.backoffs = @ \cup {[host |-> e.socks[s].host,
                                               attempts |-> e.socks[s].attempts,
                                               sock |-> s, delay |-> delay,
                                               waited |-> e.socks[s].waited
                                                            + delay]}]
         ELSE e1

\* setTimeout(() => attemptReconnect(currentHost, ...), RECONNECT_INITIAL_DELAY)
\* sock names the socket whose handler schedules the timer
scheduleReconnect(e, host, s) ==
  [e EXCEPT !.timers = Append(@, [host |-> host, sock |-> s,
                                  delay |-> RECONNECT_INITIAL_DELAY])]

handleConnection(e, s) ==
  LET e1 == setConnectionState(e, [isConnected |-> TRUE,
                                   host |-> e.socks[s].host,
                                   lastError |-> "", lastCommand |-> 0,
                                   lastResponse |-> <<>>,
                                   useTLS |-> e.socks[s].tls])
  IN resolve(e1, s, TRUE)

\* the connect tool after its await of a connect call that succeeded: the
\* profile of the connection is saved, or marked active if it exists
saveConnection(e, name) == [e EXCEPT !.saved[name] = "active"]

\* the 'secureConnect' handler of socket s: the session's TLS details are
\* stored as sslInfo (TRUE: present), then handleConnection runs
onSecureConnect(e, s) ==
  handleConnection(setConnectionState(e, [sslInfo |-> TRUE]), s)

\* the socket 'error' handler of socket s (s is already destroyed by Node)
\* for an error that it describes as message
onErrorAs(e, s, message) ==
  LET currentHost == e.cs.host
      e1 == setConnectionState(e, [lastError |-> message,
                                   isConnected |-> FALSE])
      e2 == [e1 EXCEPT !.socks = Destroy(e1.socks, e1.tc), !.tc = 0]
      e3 == stopKeepAlive(e2)
      e4 == IF currentHost # NoHost
              THEN scheduleReconnect(e3, currentHost, s) ELSE e3
  IN resolve(markInactive(e4, e4.cs.host), s, FALSE)

\* the 'error' handler for an error of a plain connection: the description
\* is the message of the error
onError(e, s) == onErrorAs(e, s, "error")

\* An error message is a sequence of pieces of text, cut so that every
\* pattern the code searches for begins and ends at a cut.
\* String.prototype.includes
Includes(text, pattern) ==
  \E i \in 0..(Len(text) - Len(pattern)) :
    SubSeq(text, i + 1, i + Len(pattern)) = pattern

\* String.prototype.toLowerCase
ToLowerCase(text) ==
  [i \in DOMAIN text |->
     IF text[i] = "Hostname/IP does not match"
       THEN "hostname/ip does not match" ELSE text[i]]

\* isSSLError(err) for an Error that is no TLSError
isSSLError(text) ==
  LET message == ToLowerCase(text) IN
  \/ Includes(message, <<"ssl">>) \/ Includes(message, <<"tls">>)
  \/ Includes(message, <<"cert">>) \/ Includes(message, <<"handshake">>)
  \/ Includes(message, <<"secureconnect">>)

\* CertificateError.createFromAuthError(authError, ...): its userMessage
createFromAuthError(authError) ==
  IF Includes(authError, <<"self", " ", "signed", " ", "cert", "ificate">>)
    THEN "Server uses a self-signed certificate"
  ELSE IF Includes(authError, <<"unable to verify the first ", "cert",
                                "ificate">>)
    THEN "Unable to verify certificate chain"
  ELSE IF Includes(authError, <<"hostname/IP does not match">>)
    THEN "Certificate hostname does not match the server"
  ELSE IF Includes(authError, <<"cert", "ificate", " has expired">>)
    THEN "Server certificate has expired"
  ELSE "SSL certificate validation failed"

\* the description the 'error' handler of a TLS connection gives an error
\* with message text
tlsConnectionError(text) ==
  LET errorMessage == ToLowerCase(text) IN
  IF isSSLError(text)
    THEN IF Includes(errorMessage, <<"cert">>)
           THEN createFromAuthError(text)
         ELSE IF \/ Includes(errorMessage, <<"handshake">>)
                 \/ Includes(errorMessage, <<"ssl">>)
                 \/ Includes(errorMessage, <<"tls">>)
           THEN "SSL handshake failed"
         ELSE "error"
    ELSE "error"

\* the socket 'timeout' handler of socket s
onTimeout(e, s) ==
  LET currentHost == e.cs.host
      e1 == setConnectionState(e, [lastError |-> "timeout",
                                   isConnected |-> FALSE])
      e2 == [e1 EXCEPT !.socks = Destroy(e1.socks, e1.tc), !.tc = 0]
      e3 == stopKeepAlive(e2)
      e4 == IF currentHost # NoHost
              THEN scheduleReconnect(e3, currentHost, s) ELSE e3
  IN resolve(markInactive(e4, e4.cs.host), s, FALSE)

\* the socket 'close' handler of socket s
onClose(e, s) ==
  LET currentHost == e.cs.host
      wasConnected == e.cs.isConnected
      e1 == stopKeepAlive(setConnectionState(e, [isConnected |-> FALSE]))
      e2 == IF wasConnected /\ currentHost # NoHost
              THEN scheduleReconnect(e1, currentHost, s) ELSE e1
  IN markInactive(e2, e2.cs.host)

\* a socket that emitted 'close' gets no further event: its record is dropped
ClosedSocket ==
  [status |-> "closed", host |-> NoHost, by |-> "none", attempts |-> 0,
   waited |-> 0, resolved |-> TRUE, tls |-> FALSE]

Closed(e, s) == [e EXCEPT !.socks[s] = ClosedSocket]

\* the characters /[\x00-\x08\x0B\x0C\x0E-\x1F\x7F]/ matches, with \x09
\* among them
MatchedWithTab(c) == c \in (0..9) \cup {11, 12} \cup (14..31) \cup {127}

\* the characters /[\x00-\x08\x0B\x0C\x0E-\x1F\x7F]/ matches
Matched(c) == c \in (0..8) \cup {11, 12} \cup (14..31) \cup {127}

\* a faulty sanitizeCommand() that removes the horizontal tab as well
RECURSIVE sanitizeRemovingTab(_)
sanitizeRemovingTab(command) ==
  IF command = <<>> THEN <<>>
  ELSE (IF MatchedWithTab(Head(command)) THEN <<>> ELSE <<Head(command)>>)
         \o sanitizeRemovingTab(Tail(command))

\* sanitizeCommand(): command.replace(/[...]/g, '') on a string given as its
\* character codes
RECURSIVE sanitizeCommand(_)
sanitizeCommand(command) ==
  IF command = <<>> THEN <<>>
  ELSE (IF Matched(Head(command)) THEN <<>> ELSE <<Head(command)>>)
         \o sanitizeCommand(Tail(command))

\* a faulty sendCommand() that writes the command without clearing the buffer
sendWithoutClear(e, k) ==
  IF ~isTelnetClientConnected(e) THEN e
  ELSE setConnectionState(e, [lastCommand |-> k])

\* a faulty sendCommand() without its connectivity check
sendCommandUnchecked(e, k) ==
  setConnectionState(clearResponseBuffer(e), [lastCommand |-> k])

\* sendCommand() of command k up to the arming of its timers: past the
\* connectivity check the buffer is cleared, the command recorded as
\* lastCommand and written
sendCommand(e, k) ==
  IF ~isTelnetClientConnected(e) THEN e
  ELSE setConnectionState(clearResponseBuffer(e), [lastCommand |-> k])

\* the settle timer of sendCommand up to its resolve
settle(e) == setConnectionState(e, [lastResponse |-> e.buf])

\* handleConnectionStatusTool(args) with args.toggleContinuousMode a boolean
\* or another defined value ("toggle")
handleConnectionStatusTool(e, toggleContinuousMode) ==
  IF toggleContinuousMode \in {"true", "false"}
    THEN setConnectionState(e, [continuousEngagementActive
                                  |-> toggleContinuousMode = "true"])
    ELSE setConnectionState(e, [continuousEngagementActive
                                  |-> ~e.cs.continuousEngagementActive])

\* what sendCommand resolves with; k numbers the command cycle, marker tells
\* that the text ends with the continuous-mode marker
NoResult ==
  [k |-> 0, ok |-> FALSE, timedOut |-> FALSE, text |-> <<>>, marker |-> FALSE]

NotConnected == [NoResult EXCEPT !.k = -1]

\* what connect returns when the identity gate refuses it
IdentityNotSet == [NoResult EXCEPT !.k = -2]

\* a faulty result that reports a hard timeout as a failure
ResultFailingOnTimeout(c, timedOut, buffer, marker) ==
  [k |-> c.k, ok |-> ~timedOut, timedOut |-> timedOut, text |-> buffer,
   marker |-> marker]

\* timedOut: the text is preceded by the timeout notice
Result(c, timedOut, buffer, marker) ==
  [k |-> c.k, ok |-> TRUE, timedOut |-> timedOut, text |-> buffer,
   marker |-> marker]

\* ----------------------------------------------------------- the decoder
\* a | b on naturals
RECURSIVE BitOr(_, _)
BitOr(a, b) ==
  IF a = 0 THEN b
  ELSE IF b = 0 THEN a
  ELSE 2 * BitOr(a \div 2, b \div 2) + (IF a % 2 = 1 \/ b % 2 = 1 THEN 1 ELSE 0)

\* a reply written to telnetClient: IAC cmd opt for WILL and WONT, and for IS
\* the subnegotiation IAC SB opt IS payload IAC SE followed by pad zero bytes;
\* flags is the number that follows "MTTS " in the payload
Reply(cmd, opt, payload, flags, pad) ==
  [cmd |-> cmd, opt |-> opt, payload |-> payload, flags |-> flags, pad |-> pad]

Write(d, reply) == [d EXCEPT !.writes = Append(@, reply)]

\* a faulty sendTerminalType() that starts the cycle again after its fourth
\* answer
sendTerminalTypeWrapping(d, hasClient) ==
  IF ~hasClient THEN d
  ELSE LET flags == BitOr(MTTS_FLAG_UTF8, BitOr(MTTS_FLAG_ANSI, MTTS_FLAG_256COLOR))
           pad == 10 - (4 + 2)
           response ==
             CASE d.tts = 0 -> Reply("IS", TERMINAL_TYPE, "CLIENT_NAME", 0, pad)
               [] d.tts = 1 -> Reply("IS", TERMINAL_TYPE, "XTERM", 0, pad)
               [] OTHER -> Reply("IS", TERMINAL_TYPE, "MTTS", flags, pad)
       IN [Write(d, response) EXCEPT !.tts = (d.tts + 1) % 4]

\* sendTerminalType(): Buffer.alloc(response.length + 10) is written whole,
\* 4 header bytes, the response and 2 footer bytes filled in
sendTerminalType(d, hasClient) ==
  IF ~hasClient THEN d
  ELSE LET flags == BitOr(MTTS_FLAG_UTF8, BitOr(MTTS_FLAG_ANSI, MTTS_FLAG_256COLOR))
           pad == 10 - (4 + 2)
           response ==
             CASE d.tts = 0 -> Reply("IS", TERMINAL_TYPE, "CLIENT_NAME", 0, pad)
               [] d.tts = 1 -> Reply("IS", TERMINAL_TYPE, "XTERM", 0, pad)
               [] OTHER -> Reply("IS", TERMINAL_TYPE, "MTTS", flags, pad)
       IN [Write(d, response) EXCEPT !.tts = IF d.tts < 3 THEN d.tts + 1 ELSE 3]

handleDO(d, option, hasClient) ==
  IF ~hasClient THEN d
  ELSE IF option = TERMINAL_TYPE
    THEN Write(d, Reply("WILL", TERMINAL_TYPE, "", 0, 0))
    ELSE Write(d, Reply("WONT", option, "", 0, 0))

\* a faulty handleDONT() that resets the sequencer for every option
handleDONTResettingAlways(d, option, hasClient) ==
  IF ~hasClient THEN d
  ELSE [Write(d, Reply("WONT", option, "", 0, 0)) EXCEPT !.tts = 0]

handleDONT(d, option, hasClient) ==
  IF ~hasClient THEN d
  ELSE LET d1 == Write(d, Reply("WONT", option, "", 0, 0)) IN
       IF option = TERMINAL_TYPE THEN [d1 EXCEPT !.tts = 0] ELSE d1

\* a faulty handleSubnegotiation() that answers every terminal-type
\* subnegotiation, whatever its command byte
handleSubnegotiationAnyCommand(d, data, hasClient) ==
  IF ~hasClient \/ Len(data) < 2 THEN d
  ELSE IF data[1] = TERMINAL_TYPE
    THEN sendTerminalType(d, hasClient)
    ELSE d

handleSubnegotiation(d, data, hasClient) ==
  IF ~hasClient \/ Len(data) < 2 THEN d
  ELSE IF data[1] = TERMINAL_TYPE /\ data[2] = SEND
    THEN sendTerminalType(d, hasClient)
    ELSE d

\* the index of the IAC of the first IAC SE at or after i, Len(data) + 1 when
\* there is none
RECURSIVE SubEnd(_, _)
SubEnd(data, i) ==
  IF i > Len(data) THEN i
  ELSE IF data[i] = IAC /\ i + 1 <= Len(data) /\ data[i + 1] = SE THEN i
  ELSE SubEnd(data, i + 1)

\* the while loop of processTelnetCommands from index i (counted from 1)
RECURSIVE Decode(_, _, _, _)
Decode(data, i, d, hasClient) ==
  LET n == Len(data)
      processedLength == IF 2 * n < MAX_BUFFER_SIZE THEN 2 * n ELSE MAX_BUFFER_SIZE
  IN
  IF i > n THEN d
  ELSE IF data[i] = IAC
    THEN IF i + 1 > n THEN d
         ELSE CASE data[i + 1] = DO ->
                     \* the option byte is read and not skipped
                     IF i + 2 <= n
                       THEN Decode(data, i + 2, handleDO(d, data[i + 2], hasClient),
                                   hasClient)
                       ELSE d
                [] data[i + 1] = DONT ->
                     IF i + 2 <= n
                       THEN Decode(data, i + 2, handleDONT(d, data[i + 2], hasClient),
                                   hasClient)
                       ELSE d
                [] data[i + 1] \in {WILL, WONT} -> Decode(data, i + 3, d, hasClient)
                [] data[i + 1] = SB ->
                     LET start == i + 2
                         end == SubEnd(data, start)
                     IN IF end <= n
                          THEN Decode(data, end + 2,
                                      handleSubnegotiation(
                                        d, SubSeq(data, start, end - 1), hasClient),
                                      hasClient)
                          ELSE d
                [] OTHER -> Decode(data, i + 2, d, hasClient)
    ELSE IF Len(d.out) < processedLength
      THEN Decode(data, i + 1, [d EXCEPT !.out = Append(@, data[i])], hasClient)
      ELSE d

\* a faulty decoder that also drops a chunk of exactly MAX_BUFFER_SIZE bytes
processDroppingAtCap(data, tts, hasClient) ==
  LET d == [out |-> <<>>, writes |-> <<>>, tts |-> tts] IN
  IF Len(data) >= MAX_BUFFER_SIZE THEN d ELSE Decode(data, 1, d, hasClient)

\* processTelnetCommands(data) with the sequencer at tts: the application
\* bytes, the replies written and the sequencer state it leaves
processTelnetCommands(data, tts, hasClient) ==
  LET d == [out |-> <<>>, writes |-> <<>>, tts |-> tts] IN
  IF Len(data) > MAX_BUFFER_SIZE THEN d ELSE Decode(data, 1, d, hasClient)

\* no chunk is decoded in this step
NoChunk ==
  [data |-> <<>>, from |-> 0, to |-> 0, client |-> FALSE, out |-> <<>>,
   writes |-> <<>>]

\* --------------------------------------------------------------- actions
\* state.ts: the initial value of connectionState
InitialState ==
  [isConnected |-> FALSE, host |-> NoHost, lastError |-> "", lastCommand |-> 0,
   lastResponse |-> <<>>, continuousEngagementActive |-> FALSE,
   useTLS |-> FALSE, sslInfo |-> FALSE]

Init ==
  /\ connectionState = InitialState
  /\ telnetClient = 0
  /\ sockets = [s \in 1..MaxSockets |-> NoSocket]
  /\ nextSock = 0
  /\ keepAliveTimer = FALSE
  /\ activeReconnectionTimers = <<>>
  /\ backoffs = {}
  /\ responseBuffer = <<>>
  /\ sends = {}
  /\ sendSeq = 0
  /\ returned = NoResult
  /\ lastAppend = [old |-> <<>>, text |-> <<>>]
  /\ hist = [discOk |-> FALSE, discPending |-> FALSE, recAttempts |-> 0,
             requested |-> <<>>]
  /\ terminalTypeState = 0
  /\ decoded = NoChunk
  /\ isUpdatingState = FALSE
  /\ deferredUpdates = <<>>
  /\ written = [command |-> <<>>, sanitized |-> <<>>]
  /\ savedConnections = [name \in Hosts |-> "none"]

Sock == 1..MaxSockets

Live == {s \in Sock : sockets[s].status \in {"connecting", "open", "destroyed"}}

\* a socket may be created: budget sockets per behaviour, MaxLive at once
SocketRoom(budget) == nextSock < budget /\ Cardinality(Live) < MaxLive

\* an attemptReconnect loop or a reconnect timer is waiting to connect
RecoveryPending ==
  activeReconnectionTimers # <<>> \/ backoffs # {}

\* A reconnect timer runs RECONNECT_INITIAL_DELAY (5000 ms); the backoff wait
\* that the same failed connect started runs less than 5000 ms (at most
\* 4000 ms and a jitter below 1000 ms), so the backoff wait ends first.
TimerDue(t) == \A r \in backoffs : r.sock # t.sock

\* a step in which no sendCommand call starts, resolves or ends
CorrIdle ==
  returned' = NoResult /\ UNCHANGED <<sends, sendSeq, lastAppend, decoded, written>>

\* the step of a handler that leaves the engine as e
Step(e) == Len(e.timers) <= MaxTimers /\ Commit(e)

\* the controller calls connect(host)
CtlConnect(host, budget) ==
  /\ SocketRoom(budget)
  /\ Step(connect(Eng, host, "ctl", 0, 0))
  /\ hist' = [hist EXCEPT !.discOk = FALSE, !.discPending = FALSE,
                          !.recAttempts = 0]
  /\ CorrIdle

\* the controller calls disconnect()
CtlDisconnect ==
  /\ Step(disconnect(Eng))
  /\ hist' = [hist EXCEPT !.discOk = @ \/ isTelnetClientConnected(Eng),
                          !.discPending = @ \/ RecoveryPending]
  /\ CorrIdle

\* 'connect' / 'secureConnect' of socket s
SocketConnect(s) ==
  /\ sockets[s].status = "connecting"
  /\ LET e0 == [Eng EXCEPT !.socks[s].status = "open"]
         e1 == IF sockets[s].tls THEN onSecureConnect(e0, s)
                                 ELSE handleConnection(e0, s)
     IN Step(IF sockets[s].by = "ctl" /\ ~sockets[s].resolved
               THEN saveConnection(e1, sockets[s].host) ELSE e1)
  /\ hist' = [hist EXCEPT !.recAttempts = 0]
  /\ CorrIdle

\* a transport error on socket s: Node destroys the socket and emits 'error'
\* and then 'close' from one tick, so both handlers run back to back
SocketError(s) ==
  /\ sockets[s].status \in {"connecting", "open"}
  /\ LET e0 == [Eng EXCEPT !.socks[s].status = "destroyed"]
     IN Step(Closed(onClose(onError(e0, s), s), s))
  /\ CorrIdle /\ UNCHANGED hist

\* the idle timeout of socket s fires
SocketTimeout(s) ==
  /\ sockets[s].status \in {"connecting", "open"}
  /\ Step(onTimeout(Eng, s))
  /\ CorrIdle /\ UNCHANGED hist

\* the 'close' event of a socket the engine destroyed
SocketClose(s) ==
  /\ sockets[s].status = "destroyed"
  /\ Step(Closed(onClose(Eng, s), s))
  /\ CorrIdle /\ UNCHANGED hist

\* the remote end closes an open socket: 'close' without 'error'
RemoteClose(s) ==
  /\ sockets[s].status = "open"
  /\ Step(Closed(onClose(Eng, s), s))
  /\ CorrIdle /\ UNCHANGED hist

\* the oldest reconnect timer fires: attemptReconnect starts and issues its
\* first connect
ReconnectTimer(budget) ==
  /\ activeReconnectionTimers # <<>>
  /\ TimerDue(Head(activeReconnectionTimers))
  /\ SocketRoom(budget)
  /\ LET t == Head(activeReconnectionTimers)
         e == [Eng EXCEPT !.timers = Tail(@)]
     IN Step(connect(e, t.host, "rec", 1, 0))
  /\ hist' = [hist EXCEPT !.recAttempts = @ + 1]
  /\ CorrIdle

\* the backoff wait of an attemptReconnect loop ends: the loop issues its
\* next connect, or ends when its attempts are used up
BackoffDone(r, budget) ==
  /\ r \in backoffs
  /\ LET e == [Eng EXCEPT !.backoffs = @ \ {r}] IN
     IF r.attempts < MAX_RECONNECT_ATTEMPTS
       THEN /\ SocketRoom(budget)
            /\ Step(connect(e, r.host, "rec", r.attempts + 1, r.waited))
            /\ hist' = [hist EXCEPT !.recAttempts = @ + 1]
       ELSE /\ Step(e)
            /\ UNCHANGED hist
  /\ CorrIdle

\* the keep-alive interval fires
KeepAlive ==
  /\ keepAliveTimer
  /\ Step(IF isTelnetClientConnected(Eng) THEN Eng ELSE stopKeepAlive(Eng))
  /\ CorrIdle /\ UNCHANGED hist

\* text arrives on socket s: the 'data' handler appends what the decoder
\* leaves of it.  A byte is abstracted to the number of the command cycle it
\* arrives in.
Data(s) ==
  /\ sockets[s].status = "open"
  /\ responseBuffer' = appendToResponseBuffer(responseBuffer, <<sendSeq>>)
  /\ returned' = NoResult
  /\ UNCHANGED <<connectionState, telnetClient, sockets, nextSock, keepAliveTimer,
                 activeReconnectionTimers, backoffs, sends, sendSeq, lastAppend,
                 hist, terminalTypeState, decoded, written, isUpdatingState,
                 deferredUpdates, savedConnections>>

\* the controller calls sendCommand(command, timeout) with the text command
SendText(command) ==
  /\ sendSeq < MaxSends
  /\ Step(sendCommand(Eng, sendSeq + 1))
  /\ IF isTelnetClientConnected(Eng)
       THEN /\ sendSeq' = sendSeq + 1
            /\ sends' = sends \cup {[k |-> sendSeq + 1, resolved |-> FALSE]}
            /\ returned' = NoResult
            /\ written' = [command |-> command,
                           sanitized |-> sanitizeCommand(command)]
       ELSE /\ returned' = NotConnected
            /\ UNCHANGED <<sends, sendSeq, written>>
  /\ UNCHANGED <<lastAppend, hist, decoded>>

\* the controller calls sendCommand(command, timeout); the text of the
\* command is left out (the empty text)
Send == SendText(<<>>)

\* the hard timeout of send c fires before its settle timer: the call was
\* made with a timeout below RESPONSE_BUFFER_WAIT
HardTimeout(c) ==
  /\ c \in sends /\ ~c.resolved
  /\ sends' = (sends \ {c}) \cup {[c EXCEPT !.resolved = TRUE]}
  /\ returned' = Result(c, TRUE, responseBuffer, FALSE)
  /\ UNCHANGED <<connectionState, telnetClient, sockets, nextSock, keepAliveTimer,
                 activeReconnectionTimers, backoffs, responseBuffer, sendSeq,
                 lastAppend, hist, terminalTypeState, decoded, written, isUpdatingState,
                 deferredUpdates, savedConnections>>

\* a faulty settle timer whose resolve takes effect although the hard timeout
\* resolved the call already
SettleResolvingAgain(c) ==
  /\ c \in sends
  /\ sends' = sends \ {c}
  /\ Step(settle(Eng))
  /\ returned' = Result(c, FALSE, responseBuffer,
                        connectionState.continuousEngagementActive)
  /\ UNCHANGED <<sendSeq, lastAppend, hist, decoded, written>>

\* the settle timer of send c fires: it cancels the hard timeout, records
\* the buffer as lastResponse and resolves with the buffer, marked in
\* continuous mode (the resolve is a no-op when the hard timeout resolved
\* already)
Settle(c) ==
  /\ c \in sends
  /\ sends' = sends \ {c}
  /\ Step(settle(Eng))
  /\ returned' = IF c.resolved THEN NoResult
                 ELSE Result(c, FALSE, responseBuffer,
                             connectionState.continuousEngagementActive)
  /\ UNCHANGED <<sendSeq, lastAppend, hist, decoded, written>>

\* the controller calls the connection_status tool with toggleContinuousMode
CtlStatus(toggleContinuousMode) ==
  /\ Step(handleConnectionStatusTool(Eng, toggleContinuousMode))
  /\ CorrIdle /\ UNCHANGED hist

\* SpecBuf: one append to the response buffer
BufAppend(text) ==
  /\ Len(text) <= MAX_BUFFER_SIZE
  /\ lastAppend' = [old |-> responseBuffer, text |-> text]
  /\ responseBuffer' = appendToResponseBuffer(responseBuffer, text)
  /\ UNCHANGED <<connectionState, telnetClient, sockets, nextSock, keepAliveTimer,
                 activeReconnectionTimers, backoffs, sends, sendSeq, returned, hist,
                 terminalTypeState, decoded, written, isUpdatingState, deferredUpdates, savedConnections>>

\* SpecBuf: clearResponseBuffer()
BufClear ==
  /\ lastAppend' = [old |-> <<>>, text |-> <<>>]
  /\ responseBuffer' = clearResponseBuffer(Eng).buf
  /\ UNCHANGED <<connectionState, telnetClient, sockets, nextSock, keepAliveTimer,
                 activeReconnectionTimers, backoffs, sends, sendSeq, returned, hist,
                 terminalTypeState, decoded, written, isUpdatingState, deferredUpdates, savedConnections>>

\* the 'data' handler of socket s runs the decoder on the chunk data: the
\* call processTelnetCommands(data), which answers the negotiation in the
\* chunk and returns its application bytes (decoded.out)
Decoding(s, data) ==
  /\ sockets[s].status = "open"
  /\ LET r == processTelnetCommands(data, terminalTypeState, telnetClient # 0)
     IN /\ Step([Eng EXCEPT !.tts = r.tts])
        /\ decoded' = [data |-> data, from |-> terminalTypeState, to |-> r.tts,
                       client |-> telnetClient # 0, out |-> r.out,
                       writes |-> r.writes]
  /\ returned' = NoResult
  /\ UNCHANGED <<sends, sendSeq, lastAppend, hist, written>>

\* ---------------------------------------------------------- specifications
\* Spec: the connection life cycle and the recovery machinery
Next ==
  \/ \E h \in Hosts : CtlConnect(h, LifeSockets)
  \/ CtlDisconnect
  \/ \E s \in Sock : SocketConnect(s)
  \/ \E s \in Sock : SocketError(s)
  \/ \E s \in Sock : SocketTimeout(s)
  \/ \E s \in Sock : SocketClose(s)
  \/ \E s \in Sock : RemoteClose(s)
  \/ ReconnectTimer(LifeSockets)
  \/ \E r \in backoffs : BackoffDone(r, LifeSockets)
  \/ KeepAlive

Spec == Init /\ [][Next]_vars

\* SpecSeq: a controller that awaits the result of each connect call before
\* its next call
CtlIdle ==
  \A s \in Sock : ~(sockets[s].by = "ctl" /\ ~sockets[s].resolved
                     /\ sockets[s].status \in {"connecting", "destroyed"})

NextSeq ==
  \/ \E h \in Hosts : CtlIdle /\ CtlConnect(h, SeqSockets)
  \/ CtlIdle /\ CtlDisconnect
  \/ \E s \in Sock : SocketConnect(s)
  \/ \E s \in Sock : SocketError(s)
  \/ \E s \in Sock : SocketTimeout(s)
  \/ \E s \in Sock : SocketClose(s)
  \/ \E s \in Sock : RemoteClose(s)
  \/ ReconnectTimer(SeqSockets)
  \/ \E r \in backoffs : BackoffDone(r, SeqSockets)
  \/ KeepAlive

SpecSeq == Init /\ [][NextSeq]_vars

\* no sendCommand call awaits its result
SendIdle == \A c \in sends : c.resolved

\* SpecCorr: the command/response correlator on top of the life cycle of a
\* controller that awaits each connect and sendCommand call; transport faults
\* arrive as 'error' and 'close', and recovery is followed through its first
\* reconnection attempt (the backoff wait after a failed attempt outlasts the
\* behaviour)
NextCorr ==
  \/ CtlIdle /\ CtlConnect("A", CorrSockets)
  \/ CtlIdle /\ CtlDisconnect
  \/ \E s \in Sock : SocketConnect(s)
  \/ \E s \in Sock : SocketError(s)
  \/ \E s \in Sock : SocketClose(s)
  \/ \E s \in Sock : RemoteClose(s)
  \/ ReconnectTimer(CorrSockets)
  \/ KeepAlive
  \/ \E s \in Sock : Data(s)
  \/ SendIdle /\ Send
  \/ \E c \in sends : HardTimeout(c)
  \/ \E c \in sends : Settle(c)

SpecCorr == Init /\ [][NextCorr]_vars

\* SpecBuf: the response buffer under every sequence of appends and clears
RECURSIVE SeqsUpTo(_, _)
SeqsUpTo(S, n) ==
  IF n = 0 THEN {<<>>}
  ELSE LET shorter == SeqsUpTo(S, n - 1)
       IN shorter \cup {Append(q, x) : q \in shorter, x \in S}

Texts == SeqsUpTo(Byte, MaxChunk) \ {<<>>}

NextBuf ==
  \/ \E text \in Texts : BufAppend(text)
  \/ BufClear

SpecBuf == Init /\ [][NextBuf]_vars

\* SpecDec: the decoder and the identification sequencer on the sessions of
\* a controller that awaits each connect call
OtherOption == 31
PlainByte == 65

SendRequest == <<IAC, SB, TERMINAL_TYPE, SEND, IAC, SE>>

\* negotiation sequences, whole and cut short, and a plain byte
Tokens ==
  { <<PlainByte>>,
    <<IAC, DO, TERMINAL_TYPE>>, <<IAC, DO, OtherOption>>,
    <<IAC, DONT, TERMINAL_TYPE>>, <<IAC, DONT, OtherOption>>,
    <<IAC, WILL, OtherOption>>, <<IAC, WONT, TERMINAL_TYPE>>,
    SendRequest,
    <<IAC, SB, TERMINAL_TYPE, IS, IAC, SE>>,
    <<IAC, SB, OtherOption, SEND, IAC, SE>>,
    <<IAC, SB, TERMINAL_TYPE, SEND>>,
    <<IAC>>, <<IAC, IAC>> }

RECURSIVE Concats(_, _)
Concats(S, n) ==
  IF n = 0 THEN {<<>>}
  ELSE LET shorter == Concats(S, n - 1)
       IN shorter \cup {q \o x : q \in shorter, x \in S}

RECURSIVE Repeat(_, _)
Repeat(x, n) == IF n = 0 THEN <<>> ELSE Repeat(x, n - 1) \o x

\* the tokens mixed in longer chunks
CoreTokens ==
  { <<PlainByte>>, <<IAC, DO, TERMINAL_TYPE>>, <<IAC, DONT, TERMINAL_TYPE>>,
    <<IAC, DO, OtherOption>>, SendRequest }

\* the chunks a socket delivers: every token and pair of tokens, longer
\* chunks of core tokens, runs of SEND requests, and plain text up to one
\* byte more than the decoder's cap
Chunks ==
  (Concats(Tokens, 2) \ {<<>>})
    \cup Concats(CoreTokens, MaxTokens)
    \cup {Repeat(SendRequest, n) : n \in 1..MaxRequests}
    \cup {Repeat(<<PlainByte>>, n) : n \in 1..(MAX_BUFFER_SIZE + 1)}

NextDec ==
  \/ CtlIdle /\ CtlConnect("A", DecSockets)
  \/ CtlIdle /\ CtlDisconnect
  \/ \E s \in Sock : SocketConnect(s)
  \/ \E s \in Sock, data \in Chunks \ {<<>>} : Decoding(s, data)

SpecDec == Init /\ [][NextDec]_vars

\* SpecRec: the recovery runs of a session whose transport fails with
\* 'error': the reconnect timers and the attemptReconnect loops
NextRec ==
  \/ CtlIdle /\ CtlConnect("A", RecSockets)
  \/ \E s \in Sock : SocketConnect(s)
  \/ \E s \in Sock : SocketError(s)
  \/ \E s \in Sock : SocketClose(s)
  \/ ReconnectTimer(RecSockets)
  \/ \E r \in backoffs : BackoffDone(r, RecSockets)

SpecRec == Init /\ [][NextRec]_vars

\* the controller calls connect(host) while isLLMIdentified() is identified
CtlConnectAs(identified, host, budget) ==
  IF identified THEN CtlConnect(host, budget)
  ELSE /\ Step(connectChecked(Eng, identified, host, "ctl", 0, 0))
       /\ returned' = IdentityNotSet
       /\ UNCHANGED <<sends, sendSeq, lastAppend, decoded, hist, written>>

\* the chunks of SpecGate: one SEND request, one byte of text
GateChunks == {SendRequest, <<PlainByte>>}

\* SpecGate: the identity gate of connect in front of a session with
\* transport errors, inbound text and terminal-type requests
NextGate ==
  \/ \E id \in BOOLEAN : CtlIdle /\ CtlConnectAs(id, "A", GateSockets)
  \/ CtlIdle /\ CtlDisconnect
  \/ \E s \in Sock : SocketConnect(s)
  \/ \E s \in Sock : SocketError(s)
  \/ \E s \in Sock : Data(s)
  \/ \E s \in Sock, data \in GateChunks : Decoding(s, data)
  \/ ReconnectTimer(GateSockets)
  \/ KeepAlive

SpecGate == Init /\ [][NextGate]_vars

\* the sources of state updates: the 'connect' handler, the 'close' handler,
\* sendCommand, its settle timer and the connection_status tool; "deferred"
\* is the callback of a setTimeout(() => setConnectionState(newState), 0)
UpdateSources == {"connect", "close", "send", "settle", "status"}

\* the update each source requests
UpdateOf(src) ==
  CASE src = "connect" -> [isConnected |-> TRUE, host |-> "A",
                           lastError |-> "", lastCommand |-> 0,
                           lastResponse |-> <<>>]
    [] src = "close" -> [isConnected |-> FALSE]
    [] src = "send" -> [lastCommand |-> 1]
    [] src = "settle" -> [lastResponse |-> <<1>>]
    [] src = "status" -> [continuousEngagementActive |-> TRUE]

\* one task of the event loop calls setConnectionState: a source with its
\* update, or the callback of a deferred update
StateTask(t) ==
  /\ IF t = "deferred"
       THEN /\ deferredUpdates # <<>>
            /\ Step(setConnectionState([Eng EXCEPT !.deferred = Tail(@)],
                                        Head(deferredUpdates)))
            /\ UNCHANGED hist
       ELSE /\ Len(hist.requested) < MaxUpdates
            /\ Step(setConnectionState(Eng, UpdateOf(t)))
            /\ hist' = [hist EXCEPT !.requested = Append(@, t)]
  /\ CorrIdle

\* SpecState: state updates requested by any mix of sources
NextState == \E t \in UpdateSources \cup {"deferred"} : StateTask(t)

SpecState == Init /\ [][NextState]_vars

\* args.timeout of the send_command tool by its place relative to the range
\* [1000, MAX_TIMEOUT] that the tool accepts
Timeouts == {"belowMin", "inRange", "aboveMax"}

\* z.number().min(1000).max(MAX_TIMEOUT).parse(args.timeout) returns
InRange(timeout) == timeout = "inRange"

\* what handleCommandTool returns when parsing its arguments throws
InvalidArguments == [NoResult EXCEPT !.k = -3]

\* the controller calls the send_command tool: handleCommandTool parses its
\* arguments and calls sendCommand if they are valid
CtlCommand(timeout) ==
  IF InRange(timeout) THEN Send
  ELSE /\ returned' = InvalidArguments
       /\ UNCHANGED <<connectionState, telnetClient, sockets, nextSock,
                      keepAliveTimer, activeReconnectionTimers, backoffs,
                      responseBuffer, sends, sendSeq, lastAppend, hist,
                      terminalTypeState, decoded, written, isUpdatingState,
                      deferredUpdates, savedConnections>>

\* SpecTool: sends through the send_command tool; its timeouts are at least
\* 1000 ms, so the settle timer (500 ms) always fires before the hard timeout
NextTool ==
  \/ CtlIdle /\ CtlConnect("A", ModeSockets)
  \/ CtlIdle /\ CtlDisconnect
  \/ \E s \in Sock : SocketConnect(s)
  \/ \E s \in Sock : Data(s)
  \/ \E timeout \in Timeouts : CtlCommand(timeout)
  \/ \E c \in sends : Settle(c)

SpecTool == Init /\ [][NextTool]_vars

\* the messages of the errors a TLS socket fails with: the verification
\* errors of OpenSSL 1.1 and of OpenSSL 3, the host name check of Node, a
\* handshake failure and a connection reset
SelfSignedMessages ==
  {<<"self", " ", "signed", " ", "cert", "ificate">>,
   <<"self", "-", "signed", " ", "cert", "ificate">>,
   <<"self", " ", "signed", " ", "cert", "ificate", " in ", "cert", "ificate",
     " chain">>,
   <<"self", "-", "signed", " ", "cert", "ificate", " in ", "cert", "ificate",
     " chain">>}

ErrorMessages ==
  SelfSignedMessages \cup
  {<<"unable to verify the first ", "cert", "ificate">>,
   <<"Hostname/IP does not match", " ", "cert", "ificate", "'s altnames">>,
   <<"cert", "ificate", " has expired">>,
   <<"ssl", "3_read_bytes:", "tls", "v1 alert ", "handshake", " failure">>,
   <<"read ECONNRESET">>}

\* a transport error with message text on socket s of a TLS connection: Node
\* destroys the socket and emits 'error' and then 'close'
TlsError(s, text) ==
  /\ sockets[s].status \in {"connecting", "open"}
  /\ LET e0 == [Eng EXCEPT !.socks[s].status = "destroyed"]
     IN Step(Closed(onClose(onErrorAs(e0, s, tlsConnectionError(text)), s), s))
  /\ CorrIdle /\ UNCHANGED hist

\* SpecTls: connections over TLS with verification of the peer and their
\* transport errors
NextTls ==
  \/ CtlIdle /\ CtlConnect("A", TlsSockets)
  \/ \E s \in Sock : SocketConnect(s)
  \/ \E s \in Sock, text \in ErrorMessages : TlsError(s, text)
  \/ ReconnectTimer(TlsSockets)
  \/ \E r \in backoffs : BackoffDone(r, TlsSockets)

SpecTls == Init /\ [][NextTls]_vars

\* the characters of SpecSan: the ends of the ranges of the pattern of
\* sanitizeCommand and their neighbours, ESC, a letter and a character past
\* US-ASCII
Chars == {0, 8, 9, 10, 11, 12, 13, 14, 27, 31, 32, 65, 127, 128}

\* the strings of at most n characters
RECURSIVE Strings(_)
Strings(n) ==
  IF n = 0 THEN {<<>>}
  ELSE LET shorter == Strings(n - 1)
       IN shorter \cup {Append(t, c) : t \in shorter, c \in Chars}

Commands == Strings(MaxCommand)

\* SpecSan: the first command of a behaviour, of any text
NextSan ==
  \/ CtlIdle /\ CtlConnect("A", ModeSockets)
  \/ \E s \in Sock : SocketConnect(s)
  \/ sendSeq = 0 /\ \E command \in Commands : SendText(command)
  \/ \E c \in sends : Settle(c)

SpecSan == Init /\ [][NextSan]_vars

\* the controller calls connect(host) with tlsOptions.tls set
CtlConnectTls(host, budget) ==
  /\ SocketRoom(budget)
  /\ Step(connectTls(Eng, host, "ctl", 0, 0))
  /\ hist' = [hist EXCEPT !.discOk = FALSE, !.discPending = FALSE,
                          !.recAttempts = 0]
  /\ CorrIdle

\* SpecSecure: sessions opened in plain mode and over TLS, one after the
\* other, with transport errors and the recovery's first attempt
NextSecure ==
  \/ \E h \in Hosts : CtlIdle /\ CtlConnect(h, SecureSockets)
  \/ \E h \in Hosts : CtlIdle /\ CtlConnectTls(h, SecureSockets)
  \/ CtlIdle /\ CtlDisconnect
  \/ \E s \in Sock : SocketConnect(s)
  \/ \E s \in Sock : SocketError(s)
  \/ ReconnectTimer(SecureSockets)

SpecSecure == Init /\ [][NextSecure]_vars

\* the values of args.toggleContinuousMode: the two booleans and a defined
\* value of another type
ToggleArgs == {"true", "false", "toggle"}

\* SpecMode: the correlator of a session without transport faults, with
\* overlapping sendCommand calls and the continuous-mode switch
NextMode ==
  \/ CtlIdle /\ CtlConnect("A", ModeSockets)
  \/ CtlIdle /\ CtlDisconnect
  \/ \E s \in Sock : SocketConnect(s)
  \/ \E s \in Sock : Data(s)
  \/ Send
  \/ \E c \in sends : HardTimeout(c)
  \/ \E c \in sends : Settle(c)
  \/ \E a \in ToggleArgs : CtlStatus(a)

SpecMode == Init /\ [][NextMode]_vars

\* SpecModeFair: SpecMode with the event loop running the settle timer of
\* every accepted send (a timer that was set and not cleared fires)
SpecModeFair == SpecMode /\ WF_vars(\E c \in sends : Settle(c))

\* ------------------------------------------------------------------ claims
\* the socket created by this step, if one is: sockets'[nextSock']
RecoveryConnects == nextSock' # nextSock /\ sockets'[nextSock'].by = "rec"

\* a fault or close event of socket s schedules a reconnect timer in this step
Schedules(s) ==
  /\ SocketError(s) \/ SocketTimeout(s) \/ SocketClose(s) \/ RemoteClose(s)
  /\ Len(activeReconnectionTimers') > Len(activeReconnectionTimers)

\* connect calls of attemptReconnect that have not resolved
InFlight ==
  {s \in Sock : sockets[s].by = "rec" /\ ~sockets[s].resolved
                /\ sockets[s].status = "connecting"}

\* recovery runs: pending reconnect timers and attemptReconnect loops
RecoveryRuns ==
  Len(activeReconnectionTimers) + Cardinality(backoffs) + Cardinality(InFlight)

\* C1: once disconnect was requested while a reconnect timer or a backoff
\* wait was pending, recovery starts no connection attempt; only a connect
\* call of the controller opens a socket.
C1_NoAttemptAfterPendingDisconnect ==
  [][hist.discPending => ~RecoveryConnects]_vars

\* the connection attempts of recovery since the last successful connect or
\* controller connect number at most MAX_RECONNECT_ATTEMPTS
AtMostThreeAttempts == hist.recAttempts <= MAX_RECONNECT_ATTEMPTS

\* the failure of a connection attempt of attemptReconnect schedules no
\* reconnect timer
NoRunFromFailedAttempt ==
  \A s \in Sock :
    sockets[s].by = "rec" /\ sockets[s].status = "connecting" => ~Schedules(s)

\* C2: after one unexpected disconnection the recovery machinery makes at
\* most MAX_RECONNECT_ATTEMPTS connection attempts while none succeeds, and
\* a failed connection attempt of attemptReconnect starts no recovery run of
\* its own.
C2_BoundedRecovery ==
  []AtMostThreeAttempts /\ [][NoRunFromFailedAttempt]_vars

\* C3: in every reachable state at most one recovery run exists (a pending
\* reconnect timer, a backoff wait or an unresolved connect of
\* attemptReconnect), so no two recovery connects are in flight at once.
C3_OneRecoveryRun == RecoveryRuns <= 1

\* C4: after an explicit disconnect of a connected session succeeded, no
\* socket is opened until the controller calls connect again.
C4_NoAttemptAfterDisconnect ==
  [][hist.discOk => ~RecoveryConnects]_vars

\* C5: a reconnect timer scheduled by an event of socket s targets the host,
\* port and logical name that socket s was opened for.
C5_ReconnectSameTarget ==
  [][\A s \in Sock :
       Schedules(s) =>
         activeReconnectionTimers'[Len(activeReconnectionTimers')].host
           = sockets[s].host]_vars

\* C6: connected implies that the transport handle is non-null and not
\* destroyed.
C6_ConnectedHasHandle ==
  connectionState.isConnected =>
    telnetClient # 0 /\ sockets[telnetClient].status \in {"connecting", "open"}

\* C7: after any sequence of appends and clears the response buffer is no
\* longer than its ceiling, for every text of up to MAX_BUFFER_SIZE bytes.
C7_BufferWithinCeiling == Len(responseBuffer) <= MAX_RESPONSE_BUFFER_SIZE

\* a is a suffix of b
IsSuffix(a, b) ==
  Len(a) <= Len(b) /\ SubSeq(b, Len(b) - Len(a) + 1, Len(b)) = a

\* the last append passed the ceiling
Overflowed ==
  Len(lastAppend.old) + Len(lastAppend.text) > MAX_RESPONSE_BUFFER_SIZE

\* C8: when an append passes the ceiling, the buffer it leaves is a suffix of
\* the old buffer followed by the appended text, and it ends with the whole
\* appended text.
C8_OverflowKeepsNewest ==
  Overflowed =>
    /\ IsSuffix(responseBuffer, lastAppend.old \o lastAppend.text)
    /\ IsSuffix(lastAppend.text, responseBuffer)

\* an append passed the ceiling, discarded a part of the old buffer and kept
\* the rest of it
C8_Witness ==
  /\ Overflowed
  /\ Len(lastAppend.old) + Len(lastAppend.text) > Len(responseBuffer)
  /\ Len(responseBuffer) > Len(lastAppend.text)

\* C9: the response a send returns holds only bytes that arrived after that
\* send cleared the buffer, none from an earlier command cycle.
C9_NoLeakAcrossCycles ==
  returned.ok =>
    \A i \in DOMAIN returned.text : returned.text[i] >= returned.k

\* the send of a second command cycle returns a non-empty response when its
\* settle timer fires
C9_Witness ==
  returned.ok /\ ~returned.timedOut /\ returned.k > 1 /\ returned.text # <<>>

\* C10 as claimed: a successful explicit disconnect leaves the response
\* buffer empty.
C10_DisconnectClearsBuffer ==
  [][CtlDisconnect /\ isTelnetClientConnected(Eng) => responseBuffer' = <<>>]_vars

\* C10: a successful explicit disconnect leaves the response buffer as it
\* was; the buffer is empty after every step in which connect opens a socket
\* and after every step in which a send is accepted.
C10_BufferClearedOnConnectAndSend ==
  [][/\ CtlDisconnect /\ isTelnetClientConnected(Eng)
          => responseBuffer' = responseBuffer
     /\ nextSock' # nextSock => responseBuffer' = <<>>
     /\ sendSeq' # sendSeq => responseBuffer' = <<>>]_vars

\* a successful explicit disconnect has left text in the response buffer
C10_Witness ==
  /\ hist.discOk /\ responseBuffer # <<>>
  /\ telnetClient = 0 /\ ~connectionState.isConnected
  /\ \A s \in Sock : sockets[s].status # "open"

\* the payloads of the identification cycle, in order
CycleAnswers == <<"CLIENT_NAME", "XTERM", "MTTS", "MTTS">>

\* the j-th answer of a run of SEND requests that finds the sequencer at from
AnswerNo(from, j) == IF from + j < 4 THEN from + j ELSE 4

\* a run of k SEND requests decoded from sequencer state decoded.from got the
\* k answers the cycle prescribes and left the sequencer k states on, at most
\* at CAPABILITY_REPEAT (3)
SendRunAnswered ==
  \A k \in 1..MaxRequests :
    /\ decoded.data = Repeat(SendRequest, k) /\ decoded.client
    /\ Len(decoded.data) <= MAX_BUFFER_SIZE
    =>
      /\ Len(decoded.writes) = k
      /\ \A j \in 1..k :
           /\ decoded.writes[j].cmd = "IS"
           /\ decoded.writes[j].opt = TERMINAL_TYPE
           /\ decoded.writes[j].payload = CycleAnswers[AnswerNo(decoded.from, j)]
           /\ decoded.writes[j].flags
                = (IF AnswerNo(decoded.from, j) >= 3 THEN 13 ELSE 0)
      /\ decoded.to = (IF decoded.from + k < 3 THEN decoded.from + k ELSE 3)

\* a connect call that opens a socket leaves the sequencer at CLIENT_NAME (0)
FreshAtClientName == nextSock' # nextSock => terminalTypeState' = 0

\* C11: a connection starts with the sequencer at CLIENT_NAME, and
\* consecutive terminal-type SEND requests are answered in order with the
\* client name, the terminal type, the capability token (flags 4 | 1 | 8 = 13)
\* and the capability token again; every later request repeats the fourth
\* answer and the state stays at CAPABILITY_REPEAT.
C11_IdentificationCycle ==
  []SendRunAnswered /\ [][FreshAtClientName]_vars

\* two SEND requests that found the sequencer at CAPABILITY_REPEAT, which it
\* reaches only by answering three requests, got the capability token twice
C11_Witness ==
  /\ decoded.data = Repeat(SendRequest, 2) /\ decoded.from = 3
  /\ Len(decoded.writes) = 2 /\ decoded.writes[2].payload = "MTTS"
  /\ decoded.to = 3

\* whole negotiation sequences and plain bytes other than IAC DO <terminal-type>
WholeOthers ==
  { <<>>, <<PlainByte>>, <<IAC, DO, OtherOption>>, <<IAC, DONT, OtherOption>>,
    <<IAC, WILL, OtherOption>>, <<IAC, WONT, TERMINAL_TYPE>>, SendRequest,
    <<IAC, SB, TERMINAL_TYPE, IS, IAC, SE>> }

WillTerminalType == Reply("WILL", TERMINAL_TYPE, "", 0, 0)

\* C12: a chunk with a well-formed IAC DO <terminal-type> gets exactly one
\* IAC WILL <terminal-type> reply, and afterwards the sequencer is at
\* CLIENT_NAME (0), whatever state it was in before.
C12_DoTerminalTypeArmsSequencer ==
  \A pre \in WholeOthers, post \in WholeOthers :
    decoded.data = pre \o <<IAC, DO, TERMINAL_TYPE>> \o post /\ decoded.client =>
      /\ Cardinality({j \in DOMAIN decoded.writes :
                        decoded.writes[j] = WillTerminalType}) = 1
      /\ decoded.to = 0

\* the chunk holds no IAC byte
NoIAC(data) == \A j \in DOMAIN data : data[j] # IAC

\* C13 as claimed: a chunk of any length with no IAC byte is decoded to
\* itself and no reply is written.
C13_PlainChunkUnchanged ==
  decoded.data # <<>> /\ NoIAC(decoded.data) =>
    decoded.out = decoded.data /\ decoded.writes = <<>>

\* C13: a chunk of at most MAX_BUFFER_SIZE bytes with no IAC byte is decoded
\* to itself; a longer one is dropped whole; in both cases no reply is
\* written and the sequencer keeps its state.
C13_PlainChunkUnchangedUpToCap ==
  decoded.data # <<>> /\ NoIAC(decoded.data) =>
    /\ decoded.out = (IF Len(decoded.data) <= MAX_BUFFER_SIZE
                        THEN decoded.data ELSE <<>>)
    /\ decoded.writes = <<>>
    /\ decoded.to = decoded.from

\* a plain chunk of exactly MAX_BUFFER_SIZE bytes was decoded
C13_Witness ==
  /\ NoIAC(decoded.data) /\ Len(decoded.data) = MAX_BUFFER_SIZE
  /\ decoded.out = decoded.data

\* C14: in every reachable state where the session is connected, a
\* keep-alive timer is armed, however the connection was established.
C14_ConnectedHasKeepAlive ==
  connectionState.isConnected => keepAliveTimer

\* C15: immediately after an explicit disconnect succeeds no timer of the
\* session is pending: the keep-alive timer, the reconnect timers, the
\* backoff waits and the settle and hard-timeout timers of in-flight sends
\* are all cancelled.
C15_DisconnectCancelsAllTimers ==
  [][CtlDisconnect /\ isTelnetClientConnected(Eng) =>
       /\ ~keepAliveTimer'
       /\ activeReconnectionTimers' = <<>>
       /\ backoffs' = {}
       /\ sends' = {}]_vars

\* the backoff the specification prescribes before attempt n, without jitter
PrescribedDelay(n) ==
  IF 1000 * 2 ^ (n - 1) < 30000 THEN 1000 * 2 ^ (n - 1) ELSE 30000

\* C16: the wait before reconnection attempt n, measured from the fault for
\* n = 1 and from the previous failed attempt for n > 1, is
\* min(1000 * 2^(n-1), 30000) ms plus a jitter below 1000 ms, for every n up
\* to the attempt budget.  The formula compares the waits without jitter.
C16_WaitBeforeAttempt ==
  [][/\ ReconnectTimer(RecSockets) =>
          Head(activeReconnectionTimers).delay = PrescribedDelay(1)
     /\ \A r \in backoffs :
          BackoffDone(r, RecSockets) /\ RecoveryConnects =>
            r.delay = PrescribedDelay(r.attempts + 1)]_vars

C18_HardTimeoutIsPartialSuccess ==
  returned.timedOut => returned.ok /\ returned.text = responseBuffer

\* a hard timeout returned a buffer that held text
C18_Witness ==
  returned.timedOut /\ returned.ok /\ returned.text # <<>>

\* C19: a send that returns a successful response returns it with the
\* continuous-mode marker when continuousMode is true at that moment and
\* without it when it is false, by whichever path it returns.
C19_MarkerFollowsMode ==
  returned.ok =>
    returned.marker = connectionState.continuousEngagementActive

\* C20: a send issued when there is no live transport returns NotConnected
\* at once and changes nothing: the response buffer, lastCommand and
\* lastResponse are unchanged, nothing is written and no timer is armed.
C20_NotConnectedSendChangesNothing ==
  [][Send /\ ~isTelnetClientConnected(Eng) =>
       /\ returned' = NotConnected
       /\ UNCHANGED <<responseBuffer, connectionState, telnetClient, sockets,
                      keepAliveTimer, activeReconnectionTimers, backoffs,
                      sends, sendSeq>>]_vars

\* a send was refused while the buffer, lastCommand and lastResponse of the
\* session before held something
C20_Witness ==
  /\ returned = NotConnected
  /\ responseBuffer # <<>>
  /\ connectionState.lastCommand # 0
  /\ connectionState.lastResponse # <<>>

\* C21: a connect call made while the identity gate reports not identified
\* returns failure before any socket is opened and leaves the connection
\* state, a live transport, the response buffer, the sequencer state and all
\* timers unchanged.
C21_RefusedConnectChangesNothing ==
  [][CtlConnectAs(FALSE, "A", GateSockets) =>
       /\ returned' = IdentityNotSet
       /\ UNCHANGED <<connectionState, telnetClient, sockets, nextSock,
                      responseBuffer, terminalTypeState, keepAliveTimer,
                      activeReconnectionTimers, backoffs, sends>>]_vars

\* connect was refused while a session was live, its buffer held text, its
\* sequencer had advanced and its keep-alive timer was armed
C21_Witness ==
  /\ returned = IdentityNotSet
  /\ isTelnetClientConnected(Eng)
  /\ responseBuffer # <<>>
  /\ terminalTypeState # 0
  /\ keepAliveTimer

\* C22: every call to connect eventually resolves with success or failure.
\* A destroyed socket emits nothing but 'close', whose handler resolves
\* nothing, so a call that is to resolve has resolved before its socket is
\* destroyed.
C22_ConnectResolves ==
  \A s \in Sock : sockets[s].status = "destroyed" => sockets[s].resolved

\* the successive merge of the updates of the sources in reqs, in order
RECURSIVE MergedInOrder(_)
MergedInOrder(reqs) ==
  IF reqs = <<>> THEN InitialState
  ELSE Merge(MergedInOrder(SubSeq(reqs, 1, Len(reqs) - 1)),
             UpdateOf(reqs[Len(reqs)]))

\* C23: state updates requested through setConnectionState by any mix of
\* sources are each applied exactly once, atomically and in request order:
\* the state equals the successive merge of the updates in request order, and
\* no update waits behind the flag.
C23_UpdatesAppliedInOrder ==
  /\ connectionState = MergedInOrder(hist.requested)
  /\ deferredUpdates = <<>>
  /\ ~isUpdatingState

\* 'connect' then 'close' were requested and a last update after them: the
\* later isConnected = false stands
C23_Witness ==
  /\ Len(hist.requested) = MaxUpdates
  /\ hist.requested[1] = "connect"
  /\ hist.requested[2] = "close"
  /\ ~connectionState.isConnected
  /\ connectionState.host = "A"

\* C24: within one command cycle the buffer is cleared and lastCommand is
\* recorded by the time the command is written, and lastResponse is assigned
\* for that cycle only after the write (by the settle timer of a written
\* command), from bytes that arrived after the clear of that cycle.
C24_CycleOrder ==
  [][/\ sendSeq' # sendSeq =>
          /\ responseBuffer' = <<>>
          /\ connectionState'.lastCommand = sendSeq'
          /\ connectionState'.lastResponse = connectionState.lastResponse
     /\ \A c \in sends : Settle(c) =>
          /\ c.k <= sendSeq
          /\ connectionState'.lastResponse = responseBuffer
          /\ \A i \in DOMAIN responseBuffer : responseBuffer[i] >= c.k
     /\ connectionState'.lastResponse # connectionState.lastResponse =>
          \/ \E c \in sends : Settle(c)
          \/ \E s \in Sock : SocketConnect(s)]_vars

\* the settle timer of a later command cycle has recorded the non-empty
\* response of that cycle as lastResponse
C24_Witness ==
  /\ returned.ok /\ ~returned.timedOut
  /\ returned.k > 1
  /\ returned.k = connectionState.lastCommand
  /\ connectionState.lastResponse # <<>>
  /\ connectionState.lastResponse = returned.text

\* C25: after every transport fault (socket error, idle timeout or unexpected
\* close) the engine ends with connected = false and lastError holding a
\* non-empty description of the fault.
C25_FaultSetsLastError ==
  [][\A s \in Sock : SocketError(s) \/ SocketTimeout(s) \/ RemoteClose(s) =>
       /\ ~connectionState'.isConnected
       /\ connectionState'.lastError # ""]_vars

\* C26: a send whose caller-supplied timeout exceeds the configured maximum
\* is still executed with its hard timeout clamped to the maximum: the
\* command is written and a response is returned, the call is not rejected.
C26_LargeTimeoutIsClamped ==
  [][CtlCommand("aboveMax") /\ isTelnetClientConnected(Eng)
       /\ sendSeq < MaxSends =>
       /\ sendSeq' = sendSeq + 1
       /\ returned' # InvalidArguments]_vars

\* C27: a TLS connect with verification of the peer whose handshake fails
\* because the peer certificate is self-signed is surfaced as a certificate
\* failure classified as self-signed, for every form of the error message
\* that reports a self-signed certificate.
C27_SelfSignedIsClassified ==
  [][\A s \in Sock, text \in SelfSignedMessages :
       TlsError(s, text) =>
         connectionState'.lastError = "Server uses a self-signed certificate"]_vars

\* a control character: a code below 0x20, or 0x7F
IsControl(c) == c < 32 \/ c = 127

\* horizontal tab, line feed and carriage return
Allowed == {9, 10, 13}

\* text without its control characters other than the allowed ones
RECURSIVE WithoutControls(_)
WithoutControls(text) ==
  IF text = <<>> THEN <<>>
  ELSE IF IsControl(Head(text)) /\ Head(text) \notin Allowed
    THEN WithoutControls(Tail(text))
    ELSE <<Head(text)>> \o WithoutControls(Tail(text))

\* C28: the sanitized command written by send contains no control character
\* other than horizontal tab, carriage return and line feed, keeps all other
\* characters in their original order, and sanitizing is idempotent.
C28_SanitizedCommand ==
  /\ \A i \in DOMAIN written.sanitized :
       IsControl(written.sanitized[i]) => written.sanitized[i] \in Allowed
  /\ written.sanitized = WithoutControls(written.command)
  /\ sanitizeCommand(written.sanitized) = written.sanitized

\* a command with a tab, an escape character and a letter was sent: the
\* escape character was removed
C28_Witness ==
  /\ sendSeq > 0
  /\ written.command = <<9, 27, 65>>
  /\ written.sanitized = <<9, 65>>

\* C29: once a reconnection attempt succeeds, recovery is over: while the
\* session that a reconnection attempt re-established is live, no reconnect
\* timer, backoff wait or other recovery run issues another connect.
C29_RecoveryEndsOnSuccess ==
  [][/\ isTelnetClientConnected(Eng)
     /\ sockets[telnetClient].by = "rec"
     /\ nextSock' # nextSock
     => sockets'[nextSock'].by # "rec"]_vars

\* C30: at any time at most one transport socket created by the engine is
\* open or connecting: a connect call that starts while another socket is
\* live or still connecting closes that socket first.
C30_OneSocketAtATime ==
  Cardinality({s \in Sock : sockets[s].status \in {"connecting", "open"}}) <= 1

\* C31: a single transport fault schedules exactly one reconnection: with the
\* reconnect timer of an error or idle timeout pending and no connect call
\* made since, the 'close' event of the socket that the fault tore down
\* schedules no second timer.
C31_OneTimerPerFault ==
  [][\A s \in Sock :
       /\ SocketClose(s)
       /\ activeReconnectionTimers # <<>>
       /\ \A x \in Sock : sockets[x].status \in {"connecting", "open"} => x < s
       => activeReconnectionTimers' = activeReconnectionTimers]_vars

\* send number k is accepted and not yet resolved
Unresolved(k) == \E c \in sends : c.k = k /\ ~c.resolved

Since(text, k) == SelectSeq(text, LAMBDA b : b >= k)

\* C33: the response of a send contains every application byte received
\* between the write of its command and its completion: while a send is
\* unresolved, no step other than the arrival of data (which may trim the
\* buffer to its cap) takes a byte received since its write out of the
\* response buffer, also when the step starts another send or a connect.
C33_ResponseKeepsReceivedBytes ==
  [][\A k \in 1..MaxSends :
       /\ Unresolved(k)
       /\ ~(\E s \in Sock : Data(s))
       => Since(responseBuffer', k) = Since(responseBuffer, k)]_vars

\* C34: the keep-alive callback writes its zero byte only to the open socket
\* of a connected session (wherever the timer is armed and the callback would
\* write, the client socket is open), and after the handler of a socket
\* error, an idle timeout, a close or an explicit disconnect has run the
\* keep-alive timer is not armed.
C34_KeepAliveOnlyWhileConnected ==
  [][/\ keepAliveTimer /\ isTelnetClientConnected(Eng)
          => sockets[telnetClient].status = "open"
     /\ (\/ \E s \in Sock : \/ SocketError(s) \/ SocketTimeout(s)
                            \/ SocketClose(s) \/ RemoteClose(s)
         \/ CtlDisconnect)
          => ~keepAliveTimer']_vars

\* the index of the last reply to DONT <terminal-type> among the replies w,
\* 0 when there is none
LastReset(w) ==
  LET R == {i \in DOMAIN w : w[i].cmd = "WONT" /\ w[i].opt = TERMINAL_TYPE}
  IN IF R = {} THEN 0 ELSE CHOOSE i \in R : \A j \in R : j <= i

\* the number of SEND requests answered after the last reset in w
AnsweredSince(w) ==
  Cardinality({i \in DOMAIN w : i > LastReset(w) /\ w[i].cmd = "IS"})

\* chunks that end with DONT <option> after whole commands or text
DontChunks(option) ==
  {x \o <<IAC, DONT, option>> :
     x \in {<<>>, <<PlainByte>>, SendRequest, <<IAC, DO, TERMINAL_TYPE>>}}

\* C35: the sequencer is at CLIENT_NAME (0) while the socket of a connect
\* call is connecting and after a chunk that ends with DONT <terminal-type>;
\* a decoded chunk leaves it at the state it had at the chunk's start or at
\* its last DONT <terminal-type>, advanced by one per SEND request answered
\* since, up to CAPABILITY_REPEAT (3); DONT for another option leaves it
\* unchanged.
C35_SequencerResets ==
  /\ telnetClient # 0 /\ sockets[telnetClient].status = "connecting"
       => terminalTypeState = 0
  /\ terminalTypeState \in {0, decoded.to}
  /\ decoded.data # <<>> =>
       LET base == IF LastReset(decoded.writes) = 0 THEN decoded.from ELSE 0
           n == base + AnsweredSince(decoded.writes)
       IN decoded.to = IF n < 3 THEN n ELSE 3
  /\ decoded.client /\ decoded.data \in DontChunks(TERMINAL_TYPE) => decoded.to = 0
  /\ decoded.data \in DontChunks(OtherOption) /\ decoded.data[1] # IAC
       => decoded.to = decoded.from
  /\ decoded.data = <<IAC, DONT, OtherOption>> => decoded.to = decoded.from

\* DONT <terminal-type> reset a sequencer that had advanced, and DONT for
\* another option left an advanced sequencer where it was
C35_Witness ==
  \/ /\ decoded.data = <<IAC, DONT, TERMINAL_TYPE>> /\ decoded.client
     /\ decoded.from = 2 /\ terminalTypeState = 0
  \/ /\ decoded.data = <<IAC, DONT, OtherOption>> /\ decoded.client
     /\ decoded.from = 2 /\ terminalTypeState = 2

\* whole negotiation commands the claim speaks of, and a plain byte
NegTokens ==
  { <<PlainByte>>, <<IAC, DO, OtherOption>>, <<IAC, DONT, TERMINAL_TYPE>>,
    <<IAC, DONT, OtherOption>>, <<IAC, WILL, OtherOption>>,
    <<IAC, WONT, TERMINAL_TYPE>> }

\* the replies the claim prescribes for token t
RepliesTo(t) ==
  IF Len(t) = 3 /\ t[2] \in {DO, DONT}
    THEN <<Reply("WONT", t[3], "", 0, 0)>>
    ELSE <<>>

\* the application bytes of token t
TextOf(t) == IF t[1] = IAC THEN <<>> ELSE t

\* C36: for a chunk of two whole commands (or text bytes) decoded with the
\* client handle set, the replies are IAC WONT <opt> for DO <opt> and for
\* DONT <opt> and none for WILL and WONT, in the order of the commands, and
\* the application output holds the text bytes only.
C36_RepliesAndOutput ==
  \A a, b \in NegTokens :
    decoded.data = a \o b /\ decoded.client
      => /\ decoded.writes = RepliesTo(a) \o RepliesTo(b)
         /\ decoded.out = TextOf(a) \o TextOf(b)

\* subnegotiations closed by IAC SE
ClosedSubs ==
  { SendRequest, <<IAC, SB, TERMINAL_TYPE, IS, IAC, SE>>,
    <<IAC, SB, OtherOption, SEND, IAC, SE>> }

\* a subnegotiation with no IAC SE
OpenSub == <<IAC, SB, TERMINAL_TYPE, SEND>>

\* text before or after a subnegotiation: none or one byte
Around == {<<>>, <<PlainByte>>}

\* C37: with the client handle set, a chunk that holds one subnegotiation
\* between text gets one reply, the sequencer's answer, when it is a
\* terminal-type SEND closed by IAC SE, and no reply otherwise; the output is
\* the text outside the subnegotiation (an unclosed subnegotiation runs to
\* the end of the chunk); the output of every chunk is no longer than the
\* chunk and than the per-chunk cap, and every chunk is decoded to the end.
C37_SubnegotiationReplies ==
  /\ Len(decoded.out) <= Len(decoded.data)
  /\ Len(decoded.out) <= MAX_BUFFER_SIZE
  /\ decoded.to \in 0..3
  /\ \A p \in Around, q \in Around :
       /\ \A sub \in ClosedSubs :
            decoded.data = p \o sub \o q /\ decoded.client
              => /\ decoded.out = p \o q
                 /\ IF sub = SendRequest
                      THEN /\ Len(decoded.writes) = 1
                           /\ decoded.writes[1].cmd = "IS"
                           /\ decoded.to = IF decoded.from < 3
                                             THEN decoded.from + 1 ELSE 3
                      ELSE decoded.writes = <<>> /\ decoded.to = decoded.from
       /\ decoded.data = p \o OpenSub \o q
            => decoded.out = p /\ decoded.writes = <<>>
                 /\ decoded.to = decoded.from

\* a SEND request between text was answered once, or an unclosed request
\* after text was left unanswered
C37_Witness ==
  /\ decoded.client
  /\ \/ decoded.data = <<PlainByte>> \o SendRequest /\ Len(decoded.writes) = 1
     \/ decoded.data = <<PlainByte>> \o OpenSub /\ decoded.writes = <<>>
  /\ decoded.out = <<PlainByte>>

\* the stream data delivered as the two chunks data[1..k] and data[k+1..],
\* decoded one after the other from sequencer state tts
DecodeSplit(data, k, tts, hasClient) ==
  LET a == processTelnetCommands(SubSeq(data, 1, k), tts, hasClient)
      b == processTelnetCommands(SubSeq(data, k + 1, Len(data)), a.tts, hasClient)
  IN [out |-> a.out \o b.out, writes |-> a.writes \o b.writes, tts |-> b.tts]

\* streams of one or two whole commands, subnegotiations and text bytes
WholeStreams ==
  Concats(NegTokens \cup {<<IAC, DO, TERMINAL_TYPE>>} \cup ClosedSubs, 2)

\* C38: decoding does not depend on how the stream is split into chunks: for
\* a stream of whole commands just decoded in one piece and every split
\* point, decoding the two parts one after the other gives the same
\* application output, the same replies and the same sequencer state.
C38_SplitIndependent ==
  \A k \in 1..(Len(decoded.data) - 1) :
    decoded.data \in WholeStreams =>
    LET r == DecodeSplit(decoded.data, k, decoded.from, decoded.client)
    IN /\ r.out = decoded.out
       /\ r.writes = decoded.writes
       /\ r.tts = decoded.to

\* C39: the TLS fields of the connection state describe the current session:
\* while a session is connected over its open socket, useTLS tells whether
\* that socket was opened with TLS, and sslInfo is present only when useTLS
\* is true.
C39_TlsFieldsDescribeSession ==
  /\ isTelnetClientConnected(Eng) /\ sockets[telnetClient].status = "open"
       => connectionState.useTLS = sockets[telnetClient].tls
  /\ connectionState.sslInfo => connectionState.useTLS

\* socket s carries the last attempt of a recovery run
LastAttempt(s) ==
  /\ sockets[s].by = "rec" /\ ~sockets[s].resolved
  /\ sockets[s].attempts = MAX_RECONNECT_ATTEMPTS

\* C40: when the last attempt of a recovery run fails, its handler leaves the
\* state not connected and the saved profile of the connection inactive, and
\* the run goes to its last wait; at the end of that wait the run ends: it
\* creates no socket, returns nothing and leaves the state and the profiles
\* as they are.
C40_ExhaustedRunEndsInactive ==
  [][/\ \A s \in Sock :
          SocketError(s) /\ LastAttempt(s)
            => /\ ~connectionState'.isConnected
               /\ savedConnections'[sockets[s].host] = "inactive"
               /\ \E r \in backoffs' :
                    r.sock = s /\ r.attempts = MAX_RECONNECT_ATTEMPTS
     /\ \A r \in backoffs :
          BackoffDone(r, RecSockets) /\ r.attempts = MAX_RECONNECT_ATTEMPTS
            => /\ nextSock' = nextSock /\ returned' = NoResult
               /\ connectionState' = connectionState
               /\ savedConnections' = savedConnections
               /\ r \notin backoffs']_vars

\* a recovery run whose three attempts failed is in its last wait, the state
\* not connected and the profile inactive
C40_Witness ==
  /\ \E r \in backoffs : r.attempts = MAX_RECONNECT_ATTEMPTS
  /\ ~connectionState.isConnected
  /\ savedConnections["A"] = "inactive"

====
